---- MODULE Spec2Model ----
(***************************************************************************)
(* Observation aggregation of railway-delay-archiver                       *)
(* (scripts/aggregate_realtime_logs.py): raw poll snapshots, one CSV row   *)
(* each, are folded by upsert_train into the SQLite table `trains`, one    *)
(* row per train instance.                                                 *)
(*                                                                         *)
(* Values.  CSV cells and TEXT columns are TLA+ strings; the string None   *)
(* stands for Python's None and for SQL NULL in a TEXT column.  A nullable *)
(* INTEGER column holds NullInt (<<>>) or <<n>>.  A datetime is a pair     *)
(* <<d, h>>: calendar day d (1 = 2024-03-01) and h half-seconds after      *)
(* 10:00:00 of that day; NoDt (<<>>) is parse_dt's None.                   *)
(***************************************************************************)
EXTENDS Integers, Sequences, FiniteSets, TLC

\* ------------------------------------------------------------------ bounds
\* upsert_train calls in one run
MaxOps == 3
\* poll instants are 10:00:00 + h/2 s for h in 0..MaxTick
MaxTick == 2
\* runs of aggregate_raw_files over one directory
MaxRuns == 2
\* statements of one directory's runs that the store fails with an error
MaxFaults == 1
\* runs that the process does not survive
MaxCrashes == 1
\* calls of the enrichment's main and of export_unified_dataset
MaxEnrich == 2
\* passes of the scraper over the stations
MaxPasses == 1

\* ------------------------------------------------------- timestamp strings
None == "None"
NoDt == <<>>
NullInt == <<>>

\* Calendar dates and clock readings, each listed in ascending byte order.
DateIso == <<"2024-03-01", "2024-03-02">>
DateCompact == <<"20240301", "20240302">>
ClockIso == <<"10:00:00", "10:00:00.500000", "10:00:01", "10:00:01.500000",
              "10:00:02", "10:00:02.500000">>
ClockCompact == <<"100000", "100001", "100002">>

DayIdx == 1..Len(DateIso)
HalfIdx == 0..(Len(ClockIso) - 1)
WholeIdx == {h \in HalfIdx : h % 2 = 0}

\* "%Y%m%dT%H%M%S" text of a whole-second datetime (the upstream API's format)
Compact(d, h) == DateCompact[d] \o "T" \o ClockCompact[(h \div 2) + 1]
\* "%Y-%m-%dT%H:%M:%S" text, with ".ffffff" when the microsecond is not 0
Extended(d, h) == DateIso[d] \o "T" \o ClockIso[h + 1]
\* the same with a space separator: only datetime.fromisoformat reads it
Spaced(d, h) == DateIso[d] \o " " \o ClockIso[h + 1]

\* The texts each parser reads, with the datetime it returns
CompactParse ==
    [s \in {Compact(d, h) : d \in DayIdx, h \in WholeIdx} |->
        CHOOSE dt \in DayIdx \X WholeIdx : s = Compact(dt[1], dt[2])]
ExtendedParse ==
    [s \in {Extended(d, h) : d \in DayIdx, h \in WholeIdx} |->
        CHOOSE dt \in DayIdx \X WholeIdx : s = Extended(dt[1], dt[2])]
IsoParse ==
    [s \in {Extended(d, h) : d \in DayIdx, h \in HalfIdx}
            \cup {Spaced(d, h) : d \in DayIdx, h \in HalfIdx} |->
        CHOOSE dt \in DayIdx \X HalfIdx :
            s \in {Extended(dt[1], dt[2]), Spaced(dt[1], dt[2])}]

\* datetime.strptime(s, fmt) for the two formats parse_dt lists; NoDt when it raises
strptime_compact(s) == IF s \in DOMAIN CompactParse THEN CompactParse[s] ELSE NoDt
strptime_extended(s) == IF s \in DOMAIN ExtendedParse THEN ExtendedParse[s] ELSE NoDt
\* datetime.fromisoformat(s); NoDt when it raises
fromisoformat(s) == IF s \in DOMAIN IsoParse THEN IsoParse[s] ELSE NoDt

parse_dt(s) ==
    IF s = None \/ s = ""
    THEN NoDt
    ELSE IF strptime_compact(s) # NoDt THEN strptime_compact(s)
    ELSE IF strptime_extended(s) # NoDt THEN strptime_extended(s)
    ELSE fromisoformat(s)

\* datetime.isoformat() and date.isoformat()
isoformat(dt) == Extended(dt[1], dt[2])
date_isoformat(dt) == DateIso[dt[1]]

\* half-seconds since 2024-03-01T10:00:00
Halves(dt) == (dt[1] - 1) * 2 * 86400 + dt[2]

\* int((a - b).total_seconds()): int() truncates toward zero
IntTotalSeconds(a, b) ==
    LET x == Halves(a) - Halves(b)
    IN  IF x >= 0 THEN x \div 2 ELSE -((-x) \div 2)

\* str(n) of an int: the decimal digits, "-" before a negative one
RECURSIVE Decimal(_)
Decimal(n) ==
    IF n < 10
    THEN SubSeq("0123456789", n + 1, n + 1)
    ELSE Decimal(n \div 10) \o SubSeq("0123456789", (n % 10) + 1, (n % 10) + 1)
str(n) == IF n < 0 THEN "-" \o Decimal(-n) ELSE Decimal(n)

\* the whole seconds between two of the API's times: up to a day and two
\* seconds either way
DelayValues == {day * 86400 + sec : day \in -1..1, sec \in -2..2}

\* int(s) of a CSV cell; NullInt when it raises ValueError
IntText == [s \in {str(n) : n \in DelayValues} |->
               CHOOSE n \in DelayValues : str(n) = s]
int(s) == IF s \in DOMAIN IntText THEN <<IntText[s]>> ELSE NullInt

\* SQLite's comparison of two TEXT values that isoformat() produced (BINARY
\* collation, bytewise): the date is the first ten bytes, the clock follows,
\* and a clock without fraction is a proper prefix of the same clock with one.
IsoRank(s) == IsoParse[s]
TextGreater(a, b) ==
    \/ IsoRank(a)[1] > IsoRank(b)[1]
    \/ IsoRank(a)[1] = IsoRank(b)[1] /\ IsoRank(a)[2] > IsoRank(b)[2]

\* ------------------------------------------------------------ upsert_train
\* seen_base / seen_rt: int(row.get("data_freshness") == ...)
seen_base(row) == IF row.data_freshness = "base_schedule" THEN 1 ELSE 0

seen_rt_notBase(row) == IF row.data_freshness # "base_schedule" THEN 1 ELSE 0
seen_rt(row) == IF row.data_freshness = "realtime" THEN 1 ELSE 0

\* last_seen_delta: int((rt_ts - poll_ts).total_seconds()) if rt_ts else None
last_seen_delta(rt_ts, poll_ts) ==
    IF rt_ts # NoDt THEN <<IntTotalSeconds(rt_ts, poll_ts)>> ELSE NullInt

\* delay_sec: int(row["delay_sec"]) unless the cell is None or ""
delay_sec(row) ==
    IF row.delay_sec \notin {None, ""} THEN int(row.delay_sec) ELSE NullInt

\* the key built from the journey id alone, the service date left out
train_instance_id_journeyOnly(vehicle_journey_id, service_date) == vehicle_journey_id

\* train_instance_id: f"{row['vehicle_journey_id']}_{service_date}"
train_instance_id(vehicle_journey_id, service_date) ==
    vehicle_journey_id \o "_" \o service_date

\* What upsert_train binds to the fourteen "?" of its INSERT, in column order:
\* the candidate row SQLite calls `excluded`.  Only read when neither
\* timestamp is None and int(row["delay_sec"]) does not raise.
Excluded(row) ==
    LET poll_ts == parse_dt(row.poll_timestamp)
        sched_ts == parse_dt(row.scheduled_time)
        rt_ts == parse_dt(row.realtime_time)
        service_date == date_isoformat(sched_ts)
    IN  [train_instance_id |-> train_instance_id(row.vehicle_journey_id, service_date),
         vehicle_journey_id |-> row.vehicle_journey_id,
         service_date |-> service_date,
         stop_area_id |-> row.stop_area_id,
         train_type |-> row.train_type,
         scheduled_time |-> isoformat(sched_ts),
         realtime_time |-> IF rt_ts # NoDt THEN isoformat(rt_ts) ELSE None,
         delay_sec |-> delay_sec(row),
         possibly_cancelled |-> 0,
         nb_observations |-> 1,
         seen_base_schedule |-> seen_base(row),
         seen_realtime |-> seen_rt(row),
         last_seen_delta_sec |-> last_seen_delta(rt_ts, poll_ts),
         last_poll_timestamp |-> isoformat(poll_ts)]

\* SQL MAX(a, b) of two 0/1 flags and COALESCE(a, b) of two TEXT values
MAX(a, b) == IF a >= b THEN a ELSE b
COALESCE(a, b) == IF a # None THEN a ELSE b

\* Variants of the statement with one slip each: >= for >, the comparison
\* turned round, and no WHERE clause at all.
OnConflictWhere_orEqual(excluded, t) ==
    ~TextGreater(t.last_poll_timestamp, excluded.last_poll_timestamp)
OnConflictWhere_reversed(excluded, t) ==
    TextGreater(t.last_poll_timestamp, excluded.last_poll_timestamp)
OnConflictWhere_always(excluded, t) == TRUE

\* WHERE excluded.last_poll_timestamp > trains.last_poll_timestamp
OnConflictWhere(excluded, t) ==
    TextGreater(excluded.last_poll_timestamp, t.last_poll_timestamp)

\* The SET list as written in the statement
SetList(t, excluded) ==
    [t EXCEPT
        !.realtime_time = excluded.realtime_time,
        !.delay_sec = excluded.delay_sec,
        !.last_seen_delta_sec = excluded.last_seen_delta_sec,
        !.last_poll_timestamp = excluded.last_poll_timestamp,
        !.nb_observations = t.nb_observations + 1,
        !.seen_base_schedule = MAX(t.seen_base_schedule, excluded.seen_base_schedule),
        !.seen_realtime = MAX(t.seen_realtime, excluded.seen_realtime),
        !.train_type = COALESCE(t.train_type, excluded.train_type),
        !.possibly_cancelled = t.possibly_cancelled]

\* Variants of the SET list with one slip each: scheduled_time also assigned,
\* realtime values kept when the snapshot has none, flags and train_type
\* assigned from the snapshot alone.
DoUpdateSet_overwritesSchedule(t, excluded) ==
    [SetList(t, excluded) EXCEPT !.scheduled_time = excluded.scheduled_time]
DoUpdateSet_keepsRealtime(t, excluded) ==
    [SetList(t, excluded) EXCEPT
        !.realtime_time = COALESCE(excluded.realtime_time, t.realtime_time)]
DoUpdateSet_overwritesFlags(t, excluded) ==
    [SetList(t, excluded) EXCEPT
        !.seen_base_schedule = excluded.seen_base_schedule,
        !.seen_realtime = excluded.seen_realtime]
DoUpdateSet_keepsDelta(t, excluded) ==
    [SetList(t, excluded) EXCEPT
        !.last_seen_delta_sec =
            IF excluded.last_seen_delta_sec = NullInt
            THEN t.last_seen_delta_sec ELSE excluded.last_seen_delta_sec]
DoUpdateSet_lastTypeWins(t, excluded) ==
    [SetList(t, excluded) EXCEPT
        !.train_type = COALESCE(excluded.train_type, t.train_type)]

\* ON CONFLICT(train_instance_id) DO UPDATE SET ...: the stored row t after it
DoUpdateSet(t, excluded) == SetList(t, excluded)

\* Variants of the statement: INSERT OR REPLACE, and an update that counts
\* every conflicting snapshot and overwrites only on a newer poll.
ExecuteUpsert_insertOrReplace(T, excluded) ==
    {t \in T : t.train_instance_id # excluded.train_instance_id} \cup {excluded}
ExecuteUpsert_countsStale(T, excluded) ==
    IF \A t \in T : t.train_instance_id # excluded.train_instance_id
    THEN T \cup {excluded}
    ELSE {IF t.train_instance_id # excluded.train_instance_id
          THEN t
          ELSE IF OnConflictWhere(excluded, t)
               THEN DoUpdateSet(t, excluded)
               ELSE [t EXCEPT !.nb_observations = t.nb_observations + 1] : t \in T}

\* The whole statement on table T: insert when the primary key is free,
\* otherwise the guarded update of the one conflicting row.
ExecuteUpsert(T, excluded) ==
    IF \A t \in T : t.train_instance_id # excluded.train_instance_id
    THEN T \cup {excluded}
    ELSE {IF t.train_instance_id = excluded.train_instance_id
             /\ OnConflictWhere(excluded, t)
          THEN DoUpdateSet(t, excluded)
          ELSE t : t \in T}

\* `if poll_ts is None or sched_ts is None: return`
Rejected(row) ==
    parse_dt(row.poll_timestamp) = NoDt \/ parse_dt(row.scheduled_time) = NoDt

\* int(row["delay_sec"]) raises ValueError: upsert_train ends before its INSERT
BadInteger(row) == row.delay_sec \notin {None, ""} /\ int(row.delay_sec) = NullInt

\* The INSERT raises IntegrityError: vehicle_journey_id and stop_area_id are
\* declared NOT NULL, and SQLite checks that before it looks for a conflict.
\* An empty string is not NULL.
NotNullFails(row) == row.vehicle_journey_id = None \/ row.stop_area_id = None

\* upsert_train ends with an exception and the table as it was
Raises(row) == ~Rejected(row) /\ (BadInteger(row) \/ NotNullFails(row))

\* The table after upsert_train(cur, row)
upsert_train(T, row) ==
    IF Rejected(row) \/ Raises(row) THEN T ELSE ExecuteUpsert(T, Excluded(row))

\* ------------------------------------------------------------------ inputs
\* poll_timestamp as the scraper writes it: datetime.utcnow().isoformat()
PollTexts == {Extended(1, h) : h \in 0..MaxTick}
\* What the API says of a departure besides its base time, and the station
\* polled: departure_date_time, data_freshness, the commercial mode's name
\* (None when the answer has none)
ObsBase ==
    [stop_area_id |-> "SA1", realtime_time |-> Compact(1, 0),
     data_freshness |-> "base_schedule", train_type |-> None]
ObsRealtime ==
    [stop_area_id |-> "SA1", realtime_time |-> Compact(1, 2),
     data_freshness |-> "realtime", train_type |-> "TGV"]
ObsAdapted ==
    [stop_area_id |-> "SA2", realtime_time |-> Compact(1, 0),
     data_freshness |-> "adapted_schedule", train_type |-> "TER"]
ObsNextDay ==
    [stop_area_id |-> "SA2", realtime_time |-> Compact(2, 0),
     data_freshness |-> "adapted_schedule", train_type |-> "TER"]
\* a departure without departure_date_time
ObsNoTime ==
    [stop_area_id |-> "SA1", realtime_time |-> None,
     data_freshness |-> "base_schedule", train_type |-> None]

\* csv.writer writes None as an empty cell, and csv.DictReader reads it as ""
CsvCell(value) == IF value = None THEN "" ELSE value

\* One entry of the API's "departures": its vehicle_journey link (None when
\* it has none), base_departure_date_time, and what the sighting says
Departure(journey, base, o) ==
    [vehicle_journey |-> journey,
     base_departure_date_time |-> base,
     departure_date_time |-> o.realtime_time,
     data_freshness |-> o.data_freshness,
     commercial_mode |-> o.train_type]

\* One turn of the loop of extract_rows, the row as aggregate_raw_files reads
\* it from the CSV file: <<>> when the departure is skipped, else <<row>> with
\* delay_sec the whole seconds from the base time to departure_date_time
ExtractRow(dep, stop_area_id, poll_ts) ==
    IF dep.base_departure_date_time \in {None, ""}
       \/ dep.departure_date_time \in {None, ""}
    THEN <<>>
    ELSE IF strptime_compact(dep.base_departure_date_time) = NoDt
            \/ strptime_compact(dep.departure_date_time) = NoDt
    THEN <<>>
    ELSE <<[poll_timestamp |-> poll_ts,
            stop_area_id |-> stop_area_id,
            vehicle_journey_id |-> CsvCell(dep.vehicle_journey),
            scheduled_time |-> dep.base_departure_date_time,
            realtime_time |-> dep.departure_date_time,
            delay_sec |-> str(IntTotalSeconds(strptime_compact(dep.departure_date_time),
                                              strptime_compact(dep.base_departure_date_time))),
            data_freshness |-> CsvCell(dep.data_freshness),
            train_type |-> CsvCell(dep.commercial_mode)]>>

\* extract_rows(departures, stop_area_id), with poll_ts what utcnow() gave
RECURSIVE extract_rows(_, _, _)
extract_rows(departures, stop_area_id, poll_ts) ==
    IF departures = <<>>
    THEN <<>>
    ELSE ExtractRow(Head(departures), stop_area_id, poll_ts)
             \o extract_rows(Tail(departures), stop_area_id, poll_ts)

\* the row of a departure of journey J1 that extract_rows does not skip
MkRow(poll, sched, o) ==
    extract_rows(<<Departure("J1", sched, o)>>, o.stop_area_id, poll)[1]

\* a line of the file cut short after scheduled_time (the scraper was stopped
\* while writing it): csv.DictReader gives None for the cells that are missing
CutShort(poll, sched) ==
    [poll_timestamp |-> poll, stop_area_id |-> "SA1",
     vehicle_journey_id |-> "J1", scheduled_time |-> sched,
     realtime_time |-> None, delay_sec |-> None,
     data_freshness |-> None, train_type |-> None]

\* Departures by base time: the 10:00:00 departure of day 1 as the base
\* schedule has it and one second late in real time, the same journey seen
\* from another station with its schedule moved to 10:00:01, the journey of
\* day 2, and a departure without departure_date_time (no row)
Sightings ==
    {<<Compact(1, 0), ObsBase>>, <<Compact(1, 0), ObsRealtime>>,
     <<Compact(1, 2), ObsAdapted>>, <<Compact(2, 0), ObsNextDay>>,
     <<Compact(1, 0), ObsNoTime>>}

GoodRows ==
    UNION {{rows[i] : i \in DOMAIN rows} :
              rows \in {extract_rows(<<Departure("J1", sg[1], sg[2])>>,
                                         sg[2].stop_area_id, p) :
                           p \in PollTexts, sg \in Sightings}}
        \cup {CutShort(p, Compact(1, 0)) : p \in PollTexts}

\* Rows upsert_train drops: no poll time, an unreadable schedule, a bad integer
BadRows ==
    {[MkRow(Extended(1, MaxTick), Compact(1, 0), ObsRealtime) EXCEPT !.poll_timestamp = ""],
     [MkRow(Extended(1, MaxTick), Compact(1, 0), ObsRealtime) EXCEPT
         !.scheduled_time = "not-a-date"],
     [MkRow(Extended(1, MaxTick), Compact(1, 0), ObsRealtime) EXCEPT !.delay_sec = "abc"]}

Rows == GoodRows \cup BadRows

\* Rows that differ in the journey: two journey ids of which one ends like a
\* date, and a departure without vehicle_journey link (None, an empty cell in
\* the CSV file), at three departures and two poll instants; and a row with an
\* unreadable scheduled_time
JourneyIds == {"J1", "J1_2024-03-01", None}
KeyRows ==
    {extract_rows(<<Departure(j, s, ObsRealtime)>>, "SA1", p)[1] :
        p \in {Extended(1, 0), Extended(1, MaxTick)},
        s \in {Compact(1, 0), Compact(1, 2), Compact(2, 0)},
        j \in JourneyIds}
      \cup {[MkRow(Extended(1, MaxTick), Compact(1, 0), ObsRealtime) EXCEPT
                 !.scheduled_time = "not-a-date"]}

\* ------------------------------------------------------ fetch_departures
MAX_RETRIES == 5
MAX_BACKOFF_SECONDS == 30

\* Durations are counted in tenths of a second.
Tenths(seconds) == 10 * seconds

\* What requests.get gives: a response with a status code and, for 200, a JSON
\* body with or without departures; or a RequestException (raised: a
\* connection error, a timeout, a body that does not decode).
NoDepartures == <<>>
Response(status, departures) ==
    [raised |-> FALSE, status |-> status, departures |-> departures]
RequestException == [raised |-> TRUE, status |-> 0, departures |-> NoDepartures]
Responses ==
    {Response(200, d) : d \in {NoDepartures, <<"departure">>}}
      \cup {Response(c, NoDepartures) : c \in {404, 429, 500, 599}}
      \cup {RequestException}

\* random.random(): a value in [0, 1), here 0.0 or 0.9
RandomTenths == {0, 9}

\* response.status_code == 429 or 500 <= response.status_code < 600
Retryable(status) == status = 429 \/ (500 <= status /\ status < 600)

\* the wait without the cap
backoff_uncapped(attempt, rnd) == Tenths(2 ^ attempt) + rnd

\* wait = min(MAX_BACKOFF_SECONDS, 2**attempt + random.random())
backoff(attempt, rnd) ==
    IF Tenths(2 ^ attempt) + rnd < Tenths(MAX_BACKOFF_SECONDS)
    THEN Tenths(2 ^ attempt) + rnd
    ELSE Tenths(MAX_BACKOFF_SECONDS)

\* fetch_departures is called: attempt is the loop variable, statuses the
\* status of each request made (0 for a RequestException), waits the sleeps,
\* errors the logging.error calls, result what was returned
FetchStart ==
    [pc |-> "request", attempt |-> 1, statuses |-> <<>>, waits |-> <<>>,
     errors |-> 0, result |-> NoDepartures]

\* --------------------------------------------------- aggregate_raw_files
\* --commit-every, here every second processed row
commit_every == 2

\* str.startswith, str.endswith
startswith(name, prefix) ==
    Len(name) >= Len(prefix) /\ SubSeq(name, 1, Len(prefix)) = prefix
endswith(name, suffix) ==
    Len(name) >= Len(suffix)
        /\ SubSeq(name, Len(name) - Len(suffix) + 1, Len(name)) = suffix

\* raw_dir.glob("raw_*.csv")
glob(names) == {n \in names : startswith(n, "raw_") /\ endswith(n, ".csv")}

\* Path.stem of a name that ends in .csv
stem(name) == SubSeq(name, 1, Len(name) - Len(".csv"))

\* raw_file.with_name(raw_file.stem + "_parsed.csv")
parsed_name(name) == stem(name) \o "_parsed.csv"

\* The order of str: by the code point of the first character that differs,
\* the shorter first when one is the beginning of the other. The characters
\* of the file names in code point order:
CodePoints == "-.0123456789_acdeprsvw"
ord(c) == CHOOSE i \in 1..Len(CodePoints) : SubSeq(CodePoints, i, i) = c
StrLess(a, b) ==
    LET differ == {i \in 1..Len(a) : i <= Len(b) /\ SubSeq(a, i, i) # SubSeq(b, i, i)}
    IN  IF differ = {}
        THEN Len(a) < Len(b)
        ELSE LET i == CHOOSE k \in differ : \A m \in differ : k <= m
             IN  ord(SubSeq(a, i, i)) < ord(SubSeq(b, i, i))

\* sorted(...) of a set of names
RECURSIVE sorted(_)
sorted(names) ==
    IF names = {}
    THEN <<>>
    ELSE LET least == CHOOSE n \in names : \A m \in names \ {n} : StrLess(n, m)
         IN  <<least>> \o sorted(names \ {least})

\* raw_files: the names found by the glob that do not end in _parsed.csv, sorted
raw_files(names) == sorted({n \in glob(names) : ~endswith(n, "_parsed.csv")})

\* the directory after raw_file.rename(...): the same rows under the new name
rename(d, name) ==
    [n \in (DOMAIN d \ {name}) \cup {parsed_name(name)} |->
        IF n = parsed_name(name) THEN d[name] ELSE d[n]]

\* the table after upsert_train on each row of a sequence in turn
RECURSIVE Fold(_, _)
Fold(T, rows) ==
    IF rows = <<>> THEN T
    ELSE upsert_train(Fold(T, SubSeq(rows, 1, Len(rows) - 1)), rows[Len(rows)])

\* Directories a run can find: two raw files of one pass each, and the file
\* of an earlier pass that a run before has merged and renamed. The rows are
\* of one departure at three poll instants, a row without poll_timestamp, a
\* row with an unreadable delay, and the next day's departure.
Seen(h) == MkRow(Extended(1, h), Compact(1, 0), ObsRealtime)
NoPoll == [Seen(0) EXCEPT !.poll_timestamp = ""]
BadDelay == [Seen(2) EXCEPT !.delay_sec = "abc"]
NextDay == MkRow(Extended(1, 0), Compact(2, 0), ObsNextDay)
Dirs ==
    {("raw_2024-03-01_09-59.csv" :> <<Seen(0), NoPoll, Seen(2)>>)
        @@ ("raw_2024-03-01_10-00.csv" :> <<Seen(1), BadDelay>>)
        @@ ("raw_2024-03-01_09-58_parsed.csv" :> <<NextDay>>),
     ("raw_2024-03-01_10-00.csv" :> <<BadDelay, Seen(1)>>)
        @@ ("raw_2024-03-01_09-59.csv" :> <<Seen(2), NoPoll, Seen(0)>>)
        @@ ("stations.csv" :> <<>>)}

\* the rows of the files a run before has renamed
MergedBefore(d) ==
    LET done == sorted({n \in DOMAIN d : endswith(n, "_parsed.csv")})
        RECURSIVE all(_)
        all(i) == IF i > Len(done) THEN <<>> ELSE d[done[i]] \o all(i + 1)
    IN  all(1)

\* The header line scrape writes first, and the line of a row: its cells, then
\* is_terminus (False) and disruption_id (none), separated by commas. A cell
\* that is missing (None) ends the line.
Header ==
    "poll_timestamp,stop_area_id,vehicle_journey_id,scheduled_time,realtime_time,"
        \o "delay_sec,data_freshness,train_type,is_terminus,disruption_id"
Cells(row) ==
    <<row.poll_timestamp, row.stop_area_id, row.vehicle_journey_id,
      row.scheduled_time, row.realtime_time, row.delay_sec,
      row.data_freshness, row.train_type, "False", "">>
RECURSIVE Join(_)
Join(cells) ==
    IF cells = <<>> \/ Head(cells) = None THEN ""
    ELSE IF Len(cells) = 1 \/ cells[2] = None THEN Head(cells)
    ELSE Head(cells) \o "," \o Join(Tail(cells))
Line(row) == Join(Cells(row))

\* the byte of a file where its k-th row ends (k = 0: where the header ends);
\* a line takes its text and "\r\n"
RECURSIVE EndOf(_, _)
EndOf(content, k) ==
    IF k = 0 THEN Len(Header) + 2
    ELSE EndOf(content, k - 1) + Len(Line(content[k])) + 2
Size(content) == EndOf(content, Len(content))

\* csv.reader on one line: the cells between the commas
RECURSIVE Split(_)
Split(text) ==
    LET commas == {i \in 1..Len(text) : SubSeq(text, i, i) = ","}
    IN  IF commas = {} THEN <<text>>
        ELSE LET k == CHOOSE i \in commas : \A j \in commas : i <= j
             IN  <<SubSeq(text, 1, k - 1)>> \o Split(SubSeq(text, k + 1, Len(text)))
\* csv.DictReader: the cells under the names of the header, None for a
\* name the line has no cell for
DictRow(cells) ==
    LET cell(i) == IF i <= Len(cells) THEN cells[i] ELSE None
    IN  [poll_timestamp |-> cell(1), stop_area_id |-> cell(2),
         vehicle_journey_id |-> cell(3), scheduled_time |-> cell(4),
         realtime_time |-> cell(5), delay_sec |-> cell(6),
         data_freshness |-> cell(7), train_type |-> cell(8)]
\* what the reader makes of a row's line read from its c-th byte on: the
\* row, nothing when only the line's end is left, else the cells of the rest
Fragment(row, c) ==
    IF c = 0 THEN <<row>>
    ELSE IF c >= Len(Line(row)) THEN <<>>
    ELSE <<DictRow(Split(SubSeq(Line(row), c + 1, Len(Line(row)))))>>

\* What the reader of a file gets when it has given every row it had and
\* asks the file for more, at the byte pos it has read up to: the first read
\* takes the whole file (it is shorter than the reader's buffer), a later one
\* the bytes from pos on, which begin inside a line when the file was
\* written anew meanwhile.
refill(pos, content) ==
    IF pos = 0
    THEN [rows |-> content, pos |-> Size(content)]
    ELSE IF pos >= Size(content)
    THEN [rows |-> <<>>, pos |-> pos]
    ELSE LET k == CHOOSE i \in 1..Len(content) :
                      EndOf(content, i - 1) <= pos /\ pos < EndOf(content, i)
         IN  [rows |-> Fragment(content[k], pos - EndOf(content, k - 1))
                          \o SubSeq(content, k + 1, Len(content)),
              pos |-> Size(content)]

\* aggregate_raw_files is not running
NotRunning ==
    [pc |-> "idle", n |-> 0, queue |-> <<>>, file |-> "", idx |-> 0, buf |-> <<>>,
     pos |-> 0, processed |-> 0, warnings |-> 0, raised |-> FALSE, faults |-> 0, crashes |-> 0]

\* ------------------------------------------------------------------ scrape
\* scrape is not running
NotScraping ==
    [pc |-> "idle", handle |-> "", todo |-> <<>>, n |-> 0, day |-> 1, now |-> 0]

\* the file of a pass: raw_<%Y-%m-%d_%H-%M of utcnow()>.csv
raw_name(pass_ts) == "raw_" \o pass_ts \o ".csv"
\* the minute a pass starts in: that of a file already there, or a later one
PassMinutes == {"2024-03-01_10-00", "2024-03-02_10-00"}
\* the day of that minute
PassDay(pass_ts) == CHOOSE d \in DayIdx : DateIso[d] = SubSeq(pass_ts, 1, 10)
\* the clock readings utcnow() gives extract_rows during a pass: after every
\* poll instant of the files already there, none before the one it gave last
ScrapeTicks == {3, 5}

\* open(output_csv, "w"): the file is created, or emptied when it is there
create(d, name) == [n \in DOMAIN d \cup {name} |-> IF n = name THEN <<>> ELSE d[n]]

\* what fetch_departures may return for a station on a day: nothing, a
\* departure without departure_date_time, or one departure of journey J1
StationDepartures(stop_area_id, day) ==
    {NoDepartures,
     <<Departure("J1", Compact(day, 0), ObsNoTime)>>,
     IF day = 2 THEN <<Departure("J1", Compact(2, 0), ObsNextDay)>>
     ELSE IF stop_area_id = "SA1"
     THEN <<Departure("J1", Compact(1, 0), ObsRealtime)>>
     ELSE <<Departure("J1", Compact(1, 2), ObsAdapted)>>}

\* ------------------------------------------------- enrichment and export
\* the stations table: SA1 with coordinates, SA2 without
stations ==
    {[stop_area_id |-> "SA1", latitude |-> <<48>>, longitude |-> <<2>>],
     [stop_area_id |-> "SA2", latitude |-> NullInt, longitude |-> NullInt]}

\* SELECT stop_area_id FROM stations ORDER BY stop_area_id
load_stop_areas_from_db == sorted({st.stop_area_id : st \in stations})

\* SQLite DATE(x) and STRFTIME('%Y-%m-%d %H:00:00', x) of an ISO text
DATE(text) == IF text = None THEN None ELSE SubSeq(text, 1, 10)
HourOf(text) ==
    IF text = None THEN None
    ELSE SubSeq(text, 1, 10) \o " " \o SubSeq(text, 12, 13) \o ":00:00"

\* date.weekday() (Monday 0) and date.month of the dates of DateIso:
\* 2024-03-01 is a Friday
weekday(d) == LET i == CHOOSE k \in DayIdx : DateIso[k] = d IN (4 + (i - 1)) % 7
MonthTexts == <<"01", "02", "03", "04", "05", "06", "07", "08", "09", "10", "11", "12">>
month(d) == CHOOSE m \in DOMAIN MonthTexts : MonthTexts[m] = SubSeq(d, 6, 7)

season_from_month(m) ==
    IF m \in {12, 1, 2} THEN "winter"
    ELSE IF m \in {3, 4, 5} THEN "spring"
    ELSE IF m \in {6, 7, 8} THEN "summer"
    ELSE "autumn"

\* one tuple of populate_calendar's rows; neither date is a French holiday
CalendarRow(d) ==
    [date |-> d, weekday |-> weekday(d), is_weekend |-> weekday(d) >= 5,
     is_holiday_fr |-> FALSE, month |-> month(d), season |-> season_from_month(month(d))]

\* SELECT DISTINCT DATE(COALESCE(realtime_time, scheduled_time)) FROM trains
\* WHERE scheduled_time IS NOT NULL
CalendarDates(T) ==
    {DATE(COALESCE(t.realtime_time, t.scheduled_time)) :
        t \in {u \in T : u.scheduled_time # None}}

\* INSERT OR IGNORE INTO calendar: a date already there keeps its row
InsertCalendar(C, rows) == C \cup {r \in rows : \A c \in C : c.date # r.date}

insert_calendar_rewriting(db, rows) ==
    [db EXCEPT
        !.calendar = InsertCalendar(@, rows),
        !.trains = {[t EXCEPT !.service_date =
                         DATE(COALESCE(t.realtime_time, t.scheduled_time))] : t \in @}]

\* populate_calendar's executemany and commit on the database db: the rows
\* built from the dates go into calendar
insert_calendar(db, rows) == [db EXCEPT !.calendar = InsertCalendar(@, rows)]

\* the (stop_area_id, weather_hour) keys of populate_weather's SELECT: trains
\* joined with the stations that have coordinates
WeatherKeys(T) ==
    {<<t.stop_area_id, HourOf(COALESCE(t.realtime_time, t.scheduled_time))>> :
        t \in {u \in T : \E st \in stations :
                   /\ st.stop_area_id = u.stop_area_id
                   /\ st.latitude # NullInt /\ st.longitude # NullInt}}

\* what fetch_weather returns when Meteostat has the hour
Hourly ==
    [temperature |-> 12, precipitation |-> 0, snowfall |-> 0, wind_speed |-> 10,
     wind_gust |-> 20, visibility |-> NullInt, weather_code |-> 3]
WeatherRow(key) == [stop_area_id |-> key[1], weather_hour |-> key[2], hourly |-> Hourly]

\* INSERT OR IGNORE INTO weather: PRIMARY KEY (stop_area_id, weather_hour)
InsertWeather(W, rows) ==
    W \cup {r \in rows : \A w \in W :
                w.stop_area_id # r.stop_area_id \/ w.weather_hour # r.weather_hour}

\* the station hours Meteostat can be asked about
StationHours ==
    {<<st.stop_area_id, HourOf(Extended(d, 0))>> : st \in stations, d \in DayIdx}

\* populate_weather's executemany and commit on the database db
insert_weather(db, rows) == [db EXCEPT !.weather = InsertWeather(@, rows)]

\* the rows of export_unified_dataset's query: every trains row with its
\* station, its calendar row ON t.service_date = c.date and its weather row,
\* <<>> where the LEFT JOIN finds none
LeftJoin(matches) == IF matches = {} THEN {<<>>} ELSE {<<x>> : x \in matches}
ExportQuery(db) ==
    UNION {
        {[train |-> t, station |-> st, calendar |-> c, weather |-> w] :
            st \in LeftJoin({x \in stations : x.stop_area_id = t.stop_area_id}),
            c \in LeftJoin({x \in db.calendar : x.date = t.service_date}),
            w \in LeftJoin({x \in db.weather :
                    /\ x.stop_area_id = t.stop_area_id
                    /\ x.weather_hour =
                           HourOf(COALESCE(t.realtime_time, t.scheduled_time))})}
        : t \in db.trains}

\* Enrichment and export find trains of two service dates: a departure of day 1
\* seen in real time, the departure of day 2 seen from another station with a
\* departure_date_time on day 1, and the same departure at its base time
EnrichRows ==
    {MkRow(Extended(1, 0), Compact(1, 0), ObsRealtime),
     MkRow(Extended(1, 1), Compact(2, 0), ObsAdapted),
     MkRow(Extended(1, 2), Compact(2, 0), ObsNextDay)}

\* the enrichment process before main is called: n counts the calls of main
\* and of export_unified_dataset so far
NotEnriching ==
    [pc |-> "idle", n |-> 0, seen |-> {}, dates |-> {}, todo |-> {}, rows |-> {},
     raised |-> FALSE]

\* who holds the write transaction of the database file, when it is neither
\* producer of SpecConc
Aggregator == 1
Enricher == 3

\* ------------------------------------------------------------------- state
VARIABLES
    trains,   \* the table: a set of rows
    before,   \* the table as it was before the latest upsert_train call
    log,      \* the rows given to the INSERT statement so far, in arrival order
    start,    \* the table as the producers, or the first run, found it
    pend,     \* producer -> the row it has still to merge
    lock,     \* the producer whose write transaction is open, 0 when none is
    fetch,    \* one call of fetch_departures: its position and what it has done
    dir,      \* raw_dir: file name -> the rows of the file
    durable,  \* the table as committed: what the database file holds
    run,      \* aggregate_raw_files: its position, counters and loop variables
    events,   \* what the runs of aggregate_raw_files did, in order
    scraper,  \* scrape: its position, the file it writes, the stations to poll
    calendar, \* the calendar table
    weather,  \* the weather table
    exported, \* the lines of the exported CSV file
    steps,    \* the enrichment and export steps done, in order
    enrich,   \* the enrichment process: where it is, what it has read and built
    tables    \* which of the tables calendar and weather the database file has

concVars == <<start, pend, lock>>
mergeVars == <<trains, before, log, concVars>>
batchVars == <<dir, durable, run, events, scraper>>
enrichVars == <<calendar, weather, exported, steps, enrich, tables>>
otherVars == <<fetch, batchVars, enrichVars>>
vars == <<mergeVars, otherVars>>

\* --------------------------------------------- one aggregation run (Spec)
Init ==
    /\ trains = {}
    /\ before = {}
    /\ log = <<>>
    /\ start = {}
    /\ pend = <<>>
    /\ lock = 0
    /\ fetch = FetchStart
    /\ dir = <<>>
    /\ durable = trains
    /\ run = NotRunning
    /\ scraper = NotScraping
    /\ events = <<>>
    /\ calendar = {}
    /\ weather = {}
    /\ exported = {}
    /\ steps = <<>>
    /\ enrich = NotEnriching
    /\ tables = {}

\* one call upsert_train(cur, row)
UpsertTrain(row) ==
    /\ Len(log) < MaxOps
    /\ trains' = upsert_train(trains, row)
    /\ before' = trains
    /\ log' = Append(log, row)
    /\ UNCHANGED <<concVars, otherVars>>

Next == \E row \in Rows : UpsertTrain(row)

Spec == Init /\ [][Next]_vars

\* ------------------------------ one call of fetch_departures (SpecFetch)
\* one turn of the loop: the request, and what is done with its outcome
Attempt(response, rnd) ==
    /\ fetch.pc = "request"
    /\ fetch.attempt <= MAX_RETRIES
    /\ fetch' =
         LET made == [fetch EXCEPT !.statuses = Append(@, response.status)]
         IN  IF ~response.raised /\ response.status = 200
             THEN [made EXCEPT !.pc = "returned", !.result = response.departures]
             ELSE IF response.raised \/ Retryable(response.status)
             THEN [made EXCEPT !.waits = Append(@, backoff(fetch.attempt, rnd)),
                               !.attempt = @ + 1]
             ELSE [made EXCEPT !.pc = "returned", !.errors = @ + 1,
                               !.result = NoDepartures]
    /\ UNCHANGED <<mergeVars, batchVars, enrichVars>>

\* the loop is over: "Giving up on ... after 5 retries"
GiveUp ==
    /\ fetch.pc = "request"
    /\ fetch.attempt > MAX_RETRIES
    /\ fetch' = [fetch EXCEPT !.pc = "returned", !.errors = @ + 1,
                              !.result = NoDepartures]
    /\ UNCHANGED <<mergeVars, batchVars, enrichVars>>

NextFetch ==
    \/ \E response \in Responses, rnd \in RandomTenths : Attempt(response, rnd)
    \/ GiveUp

SpecFetch == Init /\ [][NextFetch]_vars

\* requests.get ends within REQUEST_TIMEOUT and time.sleep within its wait, so
\* a call that can take a step takes it
SpecFetchLive == SpecFetch /\ WF_vars(NextFetch)

\* ---------------------- runs of aggregate_raw_files on a directory (SpecBatch)
InitBatch ==
    /\ dir \in Dirs
    /\ trains = Fold({}, MergedBefore(dir))
    /\ durable = trains
    /\ start = trains
    /\ before = trains
    /\ log = <<>>
    /\ pend = <<>>
    /\ lock = 0
    /\ fetch = FetchStart
    /\ run = NotRunning
    /\ scraper = NotScraping
    /\ events = <<>>
    /\ calendar = {}
    /\ weather = {}
    /\ exported = {}
    /\ steps = <<>>
    /\ enrich = NotEnriching
    /\ tables = {}

\* one entry of events: what was done, in which run, on which file and row,
\* and at a rename the rows the file has then
Event(kind, row) ==
    [run |-> run.n, kind |-> kind, file |-> run.file, idx |-> run.idx, row |-> row,
     content |-> IF kind = "rename" THEN dir[run.file] ELSE <<>>]

\* the call, up to the loop over the files: a new connection, the sorted list;
\* start and log from here on are the table this call found and the rows it
\* has counted as processed
StartRun ==
    /\ run.pc = "idle"
    /\ run.n < MaxRuns
    /\ run' = [run EXCEPT !.pc = "loop", !.n = @ + 1,
                          !.queue = raw_files(DOMAIN dir),
                          !.file = "", !.idx = 0, !.buf = <<>>, !.pos = 0,
                          !.processed = 0, !.warnings = 0, !.raised = FALSE]
    /\ start' = trains
    /\ log' = <<>>
    /\ UNCHANGED <<trains, before, pend, lock, fetch, enrichVars, dir, durable,
                   events, scraper>>

\* `for raw_file in raw_files`: the next file is opened
OpenFile ==
    /\ run.pc = "loop"
    /\ run.queue # <<>>
    /\ run' = [run EXCEPT !.pc = "rows", !.file = Head(run.queue), !.idx = 1,
                          !.buf = <<>>, !.pos = 0]
    /\ events' = Append(events, [Event("open", <<>>) EXCEPT
                                    !.file = Head(run.queue), !.idx = 0])
    /\ UNCHANGED <<mergeVars, fetch, enrichVars, dir, durable, scraper>>

\* The rows the reader of the open file can give and the byte it has read
\* up to: the rows it has read, and when it has given them all, what the file
\* holds from that byte on. A file emptied and written anew meanwhile does
\* not change the rows already read.
Reader ==
    IF run.idx <= Len(run.buf)
    THEN [rows |-> run.buf, pos |-> run.pos]
    ELSE LET more == refill(run.pos, dir[run.file])
         IN  [rows |-> run.buf \o more.rows, pos |-> more.pos]

failed_commit_rolls_back(T, D) == D

\* The connection's table after a conn.commit() that raised "database is
\* locked": the transaction stays open with all it has merged.
failed_commit(T, D) == T

\* `for row in reader`: the try block on the next row of the file. With
\* error "execute", cur.execute raises sqlite3.OperationalError (database is
\* locked); with error "commit", the conn.commit() of every commit_every
\* rows raises it, after the row was merged and counted. Like every
\* exception of the block it is logged as "Skipping row" and the loop goes
\* on. log takes the rows counted in `processed`.
Row(error) ==
    /\ run.pc = "rows"
    /\ run.idx <= Len(Reader.rows)
    /\ LET row == Reader.rows[run.idx]
           call == IF Rejected(row) THEN "returned"
                   ELSE IF Raises(row) THEN "raised"
                   ELSE IF error = "execute" THEN "store_error"
                   ELSE "merged"
           counted == call \in {"returned", "merged"}
           processed == IF counted THEN run.processed + 1 ELSE run.processed
           commits == counted /\ processed % commit_every = 0
           kind == IF error = "commit" THEN "commit_raised" ELSE call
       IN  /\ error = "execute" => (call = "store_error" /\ run.faults < MaxFaults)
           /\ error = "commit" => (commits /\ run.faults < MaxFaults)
           /\ trains' = IF error = "execute" THEN trains
                        ELSE IF error = "commit"
                             THEN failed_commit(upsert_train(trains, row), durable)
                             ELSE upsert_train(trains, row)
           /\ durable' = IF commits /\ error # "commit" THEN trains' ELSE durable
           /\ before' = trains
           /\ log' = IF counted THEN Append(log, row) ELSE log
           /\ run' = [run EXCEPT
                         !.idx = @ + 1,
                         !.buf = Reader.rows,
                         !.pos = Reader.pos,
                         !.processed = processed,
                         !.warnings = IF counted /\ error # "commit" THEN @ ELSE @ + 1,
                         !.faults = IF error # "none" THEN @ + 1 ELSE @]
           /\ events' = Append(events, Event(kind, <<row>>))
    /\ UNCHANGED <<concVars, fetch, enrichVars, dir, scraper>>

\* the conn.commit() after the rows of a file. With error it raises, nothing
\* catches it, and the call ends there with the connection and what it had
\* not committed.
CommitFile(error) ==
    /\ run.pc = "rows"
    /\ run.idx > Len(Reader.rows)
    /\ error => run.faults < MaxFaults
    /\ IF error
       THEN /\ trains' = durable
            /\ durable' = durable
            /\ run' = [run EXCEPT !.pc = "idle", !.raised = TRUE, !.faults = @ + 1]
            /\ events' = Append(events, Event("commit_error", <<>>))
       ELSE /\ trains' = trains
            /\ durable' = trains
            /\ run' = [run EXCEPT !.pc = "rename"]
            /\ events' = Append(events, Event("commit", <<>>))
    /\ UNCHANGED <<before, log, concVars, fetch, enrichVars, dir, scraper>>

\* raw_file.rename(...), and back to the loop over the files. A pass of the
\* scraper that has the file open goes on writing into it under its new name.
RenameFile ==
    /\ run.pc = "rename"
    /\ dir' = rename(dir, run.file)
    /\ scraper' = IF scraper.handle = run.file
                  THEN [scraper EXCEPT !.handle = parsed_name(run.file)]
                  ELSE scraper
    /\ run' = [run EXCEPT !.pc = "loop", !.queue = Tail(@)]
    /\ events' = Append(events, Event("rename", <<>>))
    /\ UNCHANGED <<mergeVars, fetch, enrichVars, durable>>

\* after the last file: conn.commit(), conn.close(), and the call returns
Finish ==
    /\ run.pc = "loop"
    /\ run.queue = <<>>
    /\ durable' = trains
    /\ run' = [run EXCEPT !.pc = "idle", !.file = "", !.idx = 0]
    /\ events' = Append(events, [Event("finish", <<>>) EXCEPT !.file = "", !.idx = 0])
    /\ UNCHANGED <<mergeVars, fetch, enrichVars, dir, scraper>>

\* the process dies (kill, power loss): what was not committed is gone
Crash ==
    /\ run.pc # "idle"
    /\ run.crashes < MaxCrashes
    /\ trains' = durable
    /\ run' = [run EXCEPT !.pc = "idle", !.crashes = @ + 1]
    /\ events' = Append(events, Event("crash", <<>>))
    /\ UNCHANGED <<before, log, concVars, fetch, enrichVars, dir, durable, scraper>>

\* scrape, up to the loop over the stations: the stop areas are loaded and
\* the file of the pass is opened for writing, also when a run is reading it.
ScrapeOpen(pass_ts) ==
    /\ scraper.pc = "idle"
    /\ scraper.n < MaxPasses
    /\ dir' = create(dir, raw_name(pass_ts))
    /\ scraper' = [pc |-> "writing", handle |-> raw_name(pass_ts),
                   todo |-> load_stop_areas_from_db, n |-> scraper.n + 1,
                   day |-> PassDay(pass_ts), now |-> 0]
    /\ UNCHANGED <<mergeVars, fetch, enrichVars, durable, run, events>>

\* `for stop_area_id in pbar`: the rows of the next station, with the time
\* utcnow() gives then, are written and flushed to the open file, whatever its
\* name is by now; after the last station the file is closed
ScrapeStation(departures, tick) ==
    /\ scraper.pc = "writing"
    /\ scraper.todo # <<>>
    /\ departures \in StationDepartures(Head(scraper.todo), scraper.day)
    /\ tick >= scraper.now
    /\ dir' = [dir EXCEPT ![scraper.handle] =
                   @ \o extract_rows(departures, Head(scraper.todo),
                                     Extended(scraper.day, tick))]
    /\ scraper' = IF Tail(scraper.todo) = <<>>
                  THEN [NotScraping EXCEPT !.n = scraper.n]
                  ELSE [scraper EXCEPT !.todo = Tail(@), !.now = tick]
    /\ UNCHANGED <<mergeVars, fetch, enrichVars, durable, run, events>>

\* KeyboardInterrupt: "Scraper stopped by user", the file is closed as it is
ScrapeStop ==
    /\ scraper.pc = "writing"
    /\ scraper' = [NotScraping EXCEPT !.n = scraper.n]
    /\ UNCHANGED <<mergeVars, fetch, enrichVars, dir, durable, run, events>>

NextBatch ==
    \/ StartRun
    \/ OpenFile
    \/ \E error \in {"none", "execute", "commit"} : Row(error)
    \/ \E pass_ts \in PassMinutes : ScrapeOpen(pass_ts)
    \/ \E departures \in UNION {StationDepartures(st.stop_area_id, d) :
                                    st \in stations, d \in DayIdx},
          tick \in ScrapeTicks :
           ScrapeStation(departures, tick)
    \/ ScrapeStop
    \/ \E error \in BOOLEAN : CommitFile(error)
    \/ RenameFile
    \/ Finish
    \/ Crash

SpecBatch == InitBatch /\ [][NextBatch]_vars

\* ------------------- runs over finished files, with crashes (SpecCrash)
\* aggregate_raw_files called when no pass of the scraper is under way
NextCrash ==
    \/ StartRun
    \/ OpenFile
    \/ \E error \in {"none", "execute", "commit"} : Row(error)
    \/ \E error \in BOOLEAN : CommitFile(error)
    \/ RenameFile
    \/ Finish
    \/ Crash

SpecCrash == InitBatch /\ [][NextCrash]_vars

\* -------------- merges with enrichment and export between them (SpecEnrich)
\* Three processes on one database file, each with its own connection: a run
\* of aggregate_raw_files (trains is what its connection sees, durable what it
\* has committed), main of the enrichment, and export_unified_dataset. The
\* file admits one write transaction; a statement that needs it while another
\* connection has it raises "database is locked" when the wait is over.
InitEnrich ==
    /\ trains = {}
    /\ start = {}
    /\ before = {}
    /\ log = <<>>
    /\ pend = <<>>
    /\ lock = 0
    /\ fetch = FetchStart
    /\ dir = <<>>
    /\ durable = {}
    /\ run = NotRunning
    /\ scraper = NotScraping
    /\ events = <<>>
    /\ calendar = {}
    /\ weather = {}
    /\ exported = {}
    /\ steps = <<>>
    /\ enrich = NotEnriching
    /\ tables = {}

\* the database file as a new connection reads it
Committed == [trains |-> durable, calendar |-> calendar, weather |-> weather]

\* a commit of the enrichment leaves db in the file
Store(db) ==
    /\ durable' = db.trains
    /\ trains' = IF lock = Aggregator THEN trains ELSE db.trains
    /\ calendar' = db.calendar
    /\ weather' = db.weather

\* upsert_train of the run: the statement opens the write transaction, or
\* goes on in the one the run has open
MergeRow(row) ==
    /\ Len(log) < MaxOps
    /\ lock \in {0, Aggregator}
    /\ lock' = Aggregator
    /\ trains' = upsert_train(trains, row)
    /\ before' = trains
    /\ log' = Append(log, row)
    /\ UNCHANGED <<start, pend, otherVars>>

\* upsert_train while the enrichment has the write transaction: cur.execute
\* raises "database is locked", the run logs "Skipping row" and goes on
MergeLocked(row) ==
    /\ run.warnings < MaxFaults
    /\ lock = Enricher
    /\ ~Rejected(row) /\ ~Raises(row)
    /\ run' = [run EXCEPT !.warnings = @ + 1]
    /\ UNCHANGED <<mergeVars, fetch, enrichVars, dir, durable, events, scraper>>

\* conn.commit() of the run
CommitMerges ==
    /\ lock = Aggregator
    /\ lock' = 0
    /\ durable' = trains
    /\ UNCHANGED <<trains, before, log, start, pend, fetch, enrichVars, dir, run,
                   events, scraper>>

\* main of the enrichment ends with the exception of a statement
EnrichRaises == [NotEnriching EXCEPT !.n = enrich.n, !.raised = TRUE]

\* main: connect, create_calendar_table. With the table in the file CREATE
\* TABLE IF NOT EXISTS does nothing and asks for no lock; without it the
\* statement needs the write transaction and is committed at once.
CreateCalendarTable ==
    /\ enrich.pc = "idle"
    /\ enrich.n < MaxEnrich
    /\ IF "calendar" \in tables \/ lock = 0
       THEN /\ tables' = tables \cup {"calendar"}
            /\ enrich' = [NotEnriching EXCEPT !.pc = "select_calendar",
                                              !.n = enrich.n + 1]
       ELSE /\ tables' = tables
            /\ enrich' = [EnrichRaises EXCEPT !.n = enrich.n + 1]
    /\ UNCHANGED <<mergeVars, fetch, batchVars, calendar, weather, exported, steps>>

\* populate_calendar, pd.read_sql: the dates of the committed trains rows
SelectCalendarDates ==
    /\ enrich.pc = "select_calendar"
    /\ enrich' = [enrich EXCEPT !.pc = "insert_calendar", !.seen = durable,
                                !.dates = CalendarDates(durable)]
    /\ UNCHANGED <<mergeVars, fetch, batchVars, calendar, weather, exported, steps,
                   tables>>

\* populate_calendar, the rows and conn.executemany: with rows the INSERT
\* opens the write transaction; with none nothing is executed
ExecuteCalendar ==
    /\ enrich.pc = "insert_calendar"
    /\ LET rows == {CalendarRow(d) : d \in enrich.dates}
       IN  IF rows = {} \/ lock = 0
           THEN /\ enrich' = [enrich EXCEPT !.pc = "commit_calendar", !.rows = rows]
                /\ lock' = IF rows = {} THEN lock ELSE Enricher
           ELSE /\ enrich' = EnrichRaises
                /\ lock' = lock
    /\ UNCHANGED <<trains, before, log, start, pend, fetch, batchVars, calendar,
                   weather, exported, steps, tables>>

\* populate_calendar, conn.commit()
CommitCalendar ==
    /\ enrich.pc = "commit_calendar"
    /\ Store(insert_calendar(Committed, enrich.rows))
    /\ lock' = IF lock = Enricher THEN 0 ELSE lock
    /\ enrich' = [enrich EXCEPT !.pc = "create_weather", !.rows = {}]
    /\ steps' = Append(steps, "calendar")
    /\ UNCHANGED <<before, log, start, pend, fetch, dir, run, events, scraper,
                   exported, tables>>

\* create_weather_table: as create_calendar_table, it raises "database is
\* locked" only for a missing table while the run has the write transaction
CreateWeatherTable ==
    /\ enrich.pc = "create_weather"
    /\ IF "weather" \in tables \/ lock = 0
       THEN /\ tables' = tables \cup {"weather"}
            /\ enrich' = [enrich EXCEPT !.pc = "select_weather"]
       ELSE /\ tables' = tables
            /\ enrich' = EnrichRaises
    /\ UNCHANGED <<mergeVars, fetch, batchVars, calendar, weather, exported, steps>>

\* populate_weather, pd.read_sql: the station hours of the committed trains
\* rows whose station has coordinates
SelectWeatherKeys ==
    /\ enrich.pc = "select_weather"
    /\ enrich' = [enrich EXCEPT !.pc = "fetch_weather", !.todo = WeatherKeys(durable)]
    /\ UNCHANGED <<mergeVars, fetch, batchVars, calendar, weather, exported, steps,
                   tables>>

\* populate_weather, one turn of the loop over the keys: fetch_weather asks
\* Meteostat; with found it has the hour, else it returns None or raises and
\* the key gives no row
FetchWeather(key, found) ==
    /\ enrich.pc = "fetch_weather"
    /\ key \in enrich.todo
    /\ enrich' = [enrich EXCEPT
                     !.todo = @ \ {key},
                     !.rows = IF found THEN @ \cup {WeatherRow(key)} ELSE @]
    /\ UNCHANGED <<mergeVars, fetch, batchVars, calendar, weather, exported, steps,
                   tables>>

\* populate_weather, conn.executemany after the loop
ExecuteWeather ==
    /\ enrich.pc = "fetch_weather"
    /\ enrich.todo = {}
    /\ IF enrich.rows = {} \/ lock = 0
       THEN /\ enrich' = [enrich EXCEPT !.pc = "commit_weather"]
            /\ lock' = IF enrich.rows = {} THEN lock ELSE Enricher
       ELSE /\ enrich' = EnrichRaises
            /\ lock' = lock
    /\ UNCHANGED <<trains, before, log, start, pend, fetch, batchVars, calendar,
                   weather, exported, steps, tables>>

\* populate_weather, conn.commit(); conn.close() and main returns
CommitWeather ==
    /\ enrich.pc = "commit_weather"
    /\ Store(insert_weather(Committed, enrich.rows))
    /\ lock' = IF lock = Enricher THEN 0 ELSE lock
    /\ enrich' = [NotEnriching EXCEPT !.n = enrich.n]
    /\ steps' = Append(steps, "weather")
    /\ UNCHANGED <<before, log, start, pend, fetch, dir, run, events, scraper,
                   exported, tables>>

\* export_unified_dataset: the query on the committed tables, and the CSV
\* file written anew (left empty, with an IndexError, when the query gives no
\* row). Without the calendar or the weather table cur.execute raises "no
\* such table" and no file is written. It is a process of its own and can run
\* while the enrichment does.
Export ==
    /\ enrich.n < MaxEnrich
    /\ IF {"calendar", "weather"} \subseteq tables
       THEN /\ exported' = ExportQuery(Committed)
            /\ steps' = Append(steps, "export")
       ELSE /\ exported' = exported
            /\ steps' = Append(steps, "no such table")
    /\ enrich' = [enrich EXCEPT !.n = @ + 1]
    /\ UNCHANGED <<mergeVars, fetch, batchVars, calendar, weather, tables>>

NextEnrich ==
    \/ \E row \in EnrichRows : MergeRow(row)
    \/ \E row \in EnrichRows : MergeLocked(row)
    \/ CommitMerges
    \/ CreateCalendarTable
    \/ SelectCalendarDates
    \/ ExecuteCalendar
    \/ CommitCalendar
    \/ CreateWeatherTable
    \/ SelectWeatherKeys
    \/ \E key \in StationHours, found \in BOOLEAN : FetchWeather(key, found)
    \/ ExecuteWeather
    \/ CommitWeather
    \/ Export

SpecEnrich == InitEnrich /\ [][NextEnrich]_vars

\* ------------------- one run over rows of several journeys (SpecKey)
NextKey == \E row \in KeyRows : UpsertTrain(row)

SpecKey == Init /\ [][NextKey]_vars

\* ------------------------- two producers on one database file (SpecConc)
\* Two runs of aggregate_raw_files, each on its own connection, each with one
\* row of the same train instance left to merge.  SQLite runs one statement
\* at a time and admits one write transaction: the sqlite3 module opens it
\* before the INSERT and it stays open until conn.commit().
Producers == {1, 2}

InitConc ==
    /\ \E seed \in {<<>>} \cup {<<r>> : r \in GoodRows} :
           trains = IF seed = <<>> THEN {} ELSE upsert_train({}, seed[1])
    /\ start = trains
    /\ before = trains
    /\ log = <<>>
    /\ pend \in {f \in [Producers -> GoodRows] :
                    Excluded(f[1]).train_instance_id = Excluded(f[2]).train_instance_id}
    /\ lock = 0
    /\ fetch = FetchStart
    /\ dir = <<>>
    /\ durable = trains
    /\ run = NotRunning
    /\ scraper = NotScraping
    /\ events = <<>>
    /\ calendar = {}
    /\ weather = {}
    /\ exported = {}
    /\ steps = <<>>
    /\ enrich = NotEnriching
    /\ tables = {}

Without(f, p) == [q \in DOMAIN f \ {p} |-> f[q]]

\* upsert_train(cur, row) by producer p: the statement runs as one step
Merge(p) ==
    /\ p \in DOMAIN pend
    /\ lock \in {0, p}
    /\ trains' = upsert_train(trains, pend[p])
    /\ before' = trains
    /\ log' = Append(log, pend[p])
    /\ lock' = p
    /\ pend' = Without(pend, p)
    /\ UNCHANGED <<start, otherVars>>

\* cur.execute raises "database is locked" once the busy timeout has run out
\* while the other producer's transaction is open; aggregate_raw_files logs
\* "Skipping row" and goes on
Busy(p) ==
    /\ p \in DOMAIN pend
    /\ lock \notin {0, p}
    /\ pend' = Without(pend, p)
    /\ UNCHANGED <<trains, before, log, start, lock, otherVars>>

\* conn.commit(): what the producer merged is in the database file
Commit(p) ==
    /\ lock = p
    /\ lock' = 0
    /\ durable' = trains
    /\ UNCHANGED <<trains, before, log, start, pend, fetch, enrichVars,
                   dir, run, events, scraper>>

NextConc == \E p \in Producers : Merge(p) \/ Busy(p) \/ Commit(p)

SpecConc == InitConc /\ [][NextConc]_vars

\* ================================================================== claims
\* Vocabulary of the claims, read off the log of calls.
Acted == Len(log) > 0
Last == log[Len(log)]

\* a snapshot upsert_train neither drops nor fails on
Valid(row) ==
    /\ parse_dt(row.poll_timestamp) # NoDt
    /\ parse_dt(row.scheduled_time) # NoDt
    /\ row.delay_sec \in {None, ""} \/ int(row.delay_sec) # NullInt
    /\ row.vehicle_journey_id # None /\ row.stop_area_id # None

\* the key of a valid snapshot: journey id and calendar date of scheduled_time
KeyOf(row) == row.vehicle_journey_id \o "_" \o DateIso[parse_dt(row.scheduled_time)[1]]

\* instants, for comparing polls in time rather than as text
PollOf(row) == Halves(parse_dt(row.poll_timestamp))
StoredPoll(t) == Halves(parse_dt(t.last_poll_timestamp))

\* the values a snapshot carries for the nullable integer columns
DelayOf(row) == IF row.delay_sec \in {None, ""} THEN NullInt ELSE int(row.delay_sec)
DeltaOf(row) ==
    IF parse_dt(row.realtime_time) = NoDt
    THEN NullInt
    ELSE LET x == Halves(parse_dt(row.realtime_time)) - PollOf(row)
         \* whole seconds of x half-seconds, the fraction dropped
         IN  <<CHOOSE n \in {x \div 2, (x \div 2) + 1} :
                 IF x >= 0 THEN 2 * n <= x /\ x < 2 * n + 2
                           ELSE 2 * n - 2 < x /\ x <= 2 * n>>

\* positions in the log of the valid snapshots of key k
CallsFor(k) == {i \in 1..Len(log) : Valid(log[i]) /\ KeyOf(log[i]) = k}
\* a call that created the record or carried a poll newer than every earlier one
Accepted(i) ==
    /\ Valid(log[i])
    /\ \A j \in CallsFor(KeyOf(log[i])) : j < i => PollOf(log[j]) < PollOf(log[i])

\* the latest call met a stored record t of its key
Meets(t) == Acted /\ Valid(Last) /\ t \in before /\ t.train_instance_id = KeyOf(Last)
StaleFor(t) == Meets(t) /\ PollOf(Last) <= StoredPoll(t)
NewerFor(t) == Meets(t) /\ PollOf(Last) > StoredPoll(t)

\* C1: a valid snapshot whose poll is not later than the stored
\* last_poll_timestamp of its key leaves that record, every field of it, as it was.
C1_StaleSkip ==
    \A t \in before :
        StaleFor(t) =>
            /\ t \in trains
            /\ \A u \in trains : u.train_instance_id = t.train_instance_id => u = t

\* C1 witness: a stale snapshot that would have changed realtime_time, the
\* realtime flag and train_type met a record and left it alone.
C1_Witness ==
    \E t \in before :
        /\ StaleFor(t)
        /\ PollOf(Last) < StoredPoll(t)
        /\ t.seen_realtime = 0 /\ Last.data_freshness = "realtime"
        /\ t.train_type = None /\ Last.train_type # None
        /\ t.realtime_time = None /\ parse_dt(Last.realtime_time) # NoDt
        /\ t \in trains

\* C2: per key, last_poll_timestamp never moves back from one call to the
\* next, and it is the largest poll among the valid snapshots given so far.
C2_MonotonicFreshness ==
    /\ \A t \in before :
           \E u \in trains :
               u.train_instance_id = t.train_instance_id /\ StoredPoll(u) >= StoredPoll(t)
    /\ \A u \in trains :
           /\ \E i \in CallsFor(u.train_instance_id) : PollOf(log[i]) = StoredPoll(u)
           /\ \A i \in CallsFor(u.train_instance_id) : PollOf(log[i]) <= StoredPoll(u)

\* C2 witness: three polls of one key: one, a later one, then one earlier than both.
C2_Witness ==
    /\ Len(log) = 3
    /\ \A i \in 1..3 : Valid(log[i]) /\ KeyOf(log[i]) = KeyOf(log[1])
    /\ PollOf(log[1]) < PollOf(log[2])
    /\ PollOf(log[3]) < PollOf(log[1])
    /\ \E u \in trains : StoredPoll(u) = PollOf(log[2])

\* C3: the stored scheduled_time is the one of the snapshot that created
\* the record, whatever later snapshots of the key carry.
C3_WriteOnceSchedule ==
    \A u \in trains :
        LET first == CHOOSE i \in CallsFor(u.train_instance_id) :
                         \A j \in CallsFor(u.train_instance_id) : i <= j
        IN  parse_dt(u.scheduled_time) = parse_dt(log[first].scheduled_time)

\* C3 witness: a newer poll of the same key with another scheduled_time was merged.
C3_Witness ==
    /\ Len(log) >= 2
    /\ Valid(log[1]) /\ Valid(log[2]) /\ KeyOf(log[1]) = KeyOf(log[2])
    /\ parse_dt(log[1].scheduled_time) # parse_dt(log[2].scheduled_time)
    /\ PollOf(log[2]) > PollOf(log[1])
    /\ \E u \in trains : u.nb_observations >= 2

\* C4: giving upsert_train the same valid snapshot twice in a row leaves
\* the table after the second call as it was after the first.
C4_Idempotence ==
    (Len(log) >= 2 /\ Valid(Last) /\ log[Len(log) - 1] = Last) => trains = before

\* C4 witness: the first of the two calls was an accepted merge onto a record.
C4_Witness ==
    /\ Len(log) = 3
    /\ log[2] = log[3]
    /\ Valid(log[1]) /\ Valid(log[2]) /\ KeyOf(log[1]) = KeyOf(log[2])
    /\ PollOf(log[2]) > PollOf(log[1])
    /\ \E u \in trains : u.nb_observations = 2
    /\ trains = before

\* C5: a snapshot newer than the stored record of its key replaces
\* realtime_time, delay_sec, last_seen_delta_sec and last_poll_timestamp by its
\* own values (null included), adds 1 to nb_observations and keeps the identity
\* columns, scheduled_time and possibly_cancelled.
C5_AcceptedMerge ==
    \A t \in before :
        NewerFor(t) =>
            \E u \in trains :
                /\ parse_dt(u.realtime_time) = parse_dt(Last.realtime_time)
                /\ u.delay_sec = DelayOf(Last)
                /\ u.last_seen_delta_sec = DeltaOf(Last)
                /\ parse_dt(u.last_poll_timestamp) = parse_dt(Last.poll_timestamp)
                /\ u.nb_observations = t.nb_observations + 1
                /\ u.train_instance_id = t.train_instance_id
                /\ u.vehicle_journey_id = t.vehicle_journey_id
                /\ u.service_date = t.service_date
                /\ u.stop_area_id = t.stop_area_id
                /\ u.scheduled_time = t.scheduled_time
                /\ u.possibly_cancelled = t.possibly_cancelled

\* C5 witness: a newer snapshot without realtime data (a CSV line cut short)
\* replaced stored realtime values by null.
C5_Witness ==
    \E t \in before :
        /\ NewerFor(t)
        /\ t.realtime_time # None /\ t.delay_sec # NullInt
        /\ parse_dt(Last.realtime_time) = NoDt
        /\ \E u \in trains :
               /\ u.train_instance_id = t.train_instance_id
               /\ u.realtime_time = None /\ u.delay_sec = NullInt
               /\ u.last_seen_delta_sec = NullInt

\* C6 as stated: a stale snapshot overwrites none of realtime_time,
\* delay_sec, last_seen_delta_sec, last_poll_timestamp, yet still adds 1 to
\* nb_observations.
C6_StaleStillCounts ==
    \A t \in before :
        StaleFor(t) =>
            \E u \in trains :
                /\ u.train_instance_id = t.train_instance_id
                /\ u.realtime_time = t.realtime_time
                /\ u.delay_sec = t.delay_sec
                /\ u.last_seen_delta_sec = t.last_seen_delta_sec
                /\ u.last_poll_timestamp = t.last_poll_timestamp
                /\ u.nb_observations = t.nb_observations + 1

\* C6 amended: a stale snapshot overwrites none of realtime_time,
\* delay_sec, last_seen_delta_sec, last_poll_timestamp, and it neither adds to
\* nb_observations nor raises a tier flag.
C6_StaleNotCounted ==
    \A t \in before :
        StaleFor(t) =>
            \E u \in trains :
                /\ u.train_instance_id = t.train_instance_id
                /\ u.realtime_time = t.realtime_time
                /\ u.delay_sec = t.delay_sec
                /\ u.last_seen_delta_sec = t.last_seen_delta_sec
                /\ u.last_poll_timestamp = t.last_poll_timestamp
                /\ u.nb_observations = t.nb_observations
                /\ u.seen_base_schedule = t.seen_base_schedule
                /\ u.seen_realtime = t.seen_realtime

\* C6 witness: a snapshot with the very poll time stored, of the realtime tier,
\* met a record that had not seen that tier; count and flag stayed.
C6_Witness ==
    \E t \in before :
        /\ StaleFor(t)
        /\ PollOf(Last) = StoredPoll(t)
        /\ t.seen_realtime = 0 /\ Last.data_freshness = "realtime"
        /\ \E u \in trains :
               /\ u.train_instance_id = t.train_instance_id
               /\ u.nb_observations = t.nb_observations
               /\ u.seen_realtime = 0

\* C7: a record whose seen_realtime (or seen_base_schedule) flag is set
\* keeps it set through every later call, accepted or stale, of any tier.
C7_TierMonotonic ==
    [][\A t \in trains :
          \E u \in trains' :
              /\ u.train_instance_id = t.train_instance_id
              /\ t.seen_realtime = 1 => u.seen_realtime = 1
              /\ t.seen_base_schedule = 1 => u.seen_base_schedule = 1]_vars

\* C7 witness: a record with both flags set took an accepted merge of a
\* snapshot that carries neither tier, and still has both.
C7_Witness ==
    \E t \in before :
        /\ NewerFor(t)
        /\ t.seen_realtime = 1 /\ t.seen_base_schedule = 1
        /\ Last.data_freshness \notin {"realtime", "base_schedule"}
        /\ \E u \in trains :
               /\ u.train_instance_id = t.train_instance_id
               /\ u.nb_observations = t.nb_observations + 1
               /\ u.seen_realtime = 1 /\ u.seen_base_schedule = 1

\* the train_type of the first call among I that carries one, None if none does
FirstType(I) ==
    LET typed == {i \in I : log[i].train_type # None}
    IN  IF typed = {} THEN None
        ELSE log[CHOOSE i \in typed : \A j \in typed : i <= j].train_type

\* C8 as stated: the stored train_type is the one of the first snapshot of
\* the key, in arrival order, that carries a train_type.
C8_FirstNonNullInArrivalOrder ==
    \A u \in trains :
        u.train_type = FirstType(CallsFor(u.train_instance_id))

\* C8 amended: the stored train_type is the one of the first ACCEPTED
\* snapshot of the key that carries a train_type (the one that created the
\* record, or one with a poll newer than all before it); a stale snapshot never
\* supplies it; and once stored it does not change.
C8_FirstAcceptedNonNull ==
    /\ \A u \in trains :
           u.train_type =
               FirstType({i \in CallsFor(u.train_instance_id) : Accepted(i)})
    /\ \A t \in before :
           t.train_type # None =>
               \E u \in trains :
                   /\ u.train_instance_id = t.train_instance_id
                   /\ u.train_type = t.train_type

\* C8 witness: created without train_type, then a stale snapshot with one,
\* then an accepted snapshot with another: the third one's is stored.
C8_Witness ==
    /\ Len(log) = 3
    /\ \A i \in 1..3 : Valid(log[i]) /\ KeyOf(log[i]) = KeyOf(log[1])
    /\ log[1].train_type = None
    /\ log[2].train_type # None /\ PollOf(log[2]) <= PollOf(log[1])
    /\ log[3].train_type \notin {None, log[2].train_type}
    /\ PollOf(log[3]) > PollOf(log[1])
    /\ \E u \in trains : u.train_type = log[3].train_type

\* C10: a valid snapshot whose key has no record inserts exactly one
\* record, built from the snapshot, with nb_observations 1 and
\* possibly_cancelled 0 (and null realtime_time, delay_sec, last_seen_delta_sec
\* when the snapshot has neither realtime_time nor delay); the other records stay.
C10_FirstObservationCreates ==
    (/\ Acted /\ Valid(Last)
     /\ \A t \in before : t.train_instance_id # KeyOf(Last))
    =>
    /\ before \subseteq trains
    /\ Cardinality(trains \ before) = 1
    /\ \A u \in trains \ before :
           /\ u.train_instance_id = KeyOf(Last)
           /\ u.vehicle_journey_id = Last.vehicle_journey_id
           /\ u.service_date = DateIso[parse_dt(Last.scheduled_time)[1]]
           /\ u.stop_area_id = Last.stop_area_id
           /\ u.train_type = Last.train_type
           /\ parse_dt(u.scheduled_time) = parse_dt(Last.scheduled_time)
           /\ parse_dt(u.realtime_time) = parse_dt(Last.realtime_time)
           /\ u.delay_sec = DelayOf(Last)
           /\ u.last_seen_delta_sec = DeltaOf(Last)
           /\ parse_dt(u.last_poll_timestamp) = parse_dt(Last.poll_timestamp)
           /\ u.nb_observations = 1
           /\ u.possibly_cancelled = 0
           /\ u.seen_base_schedule = 1 <=> Last.data_freshness = "base_schedule"
           /\ u.seen_realtime = 1 <=> Last.data_freshness = "realtime"
           /\ (parse_dt(Last.realtime_time) = NoDt /\ Last.delay_sec \in {None, ""})
                  => /\ u.realtime_time = None
                     /\ u.delay_sec = NullInt
                     /\ u.last_seen_delta_sec = NullInt

\* C10 witness: with a record of another service date already stored, a
\* snapshot without realtime data created the record of its own key.
C10_Witness ==
    /\ Acted /\ Valid(Last)
    /\ before # {}
    /\ \A t \in before : t.train_instance_id # KeyOf(Last)
    /\ parse_dt(Last.realtime_time) = NoDt
    /\ \E u \in trains \ before :
           u.realtime_time = None /\ u.nb_observations = 1

\* ------------------------------------------------ claims about SpecConc
\* both producers' statements ran, log[1] before log[2]
BothMerged == pend = <<>> /\ Len(log) = 2
\* positions of the snapshot with the later and with the earlier poll
LaterIdx == IF PollOf(log[1]) > PollOf(log[2]) THEN 1 ELSE 2
EarlierIdx == 3 - LaterIdx
\* what the producers found for their key: its count (0 without a record) and
\* whether a snapshot is newer than it
StartRows == {t \in start : t.train_instance_id = KeyOf(log[1])}
StartCount == IF StartRows = {} THEN 0 ELSE (CHOOSE t \in StartRows : TRUE).nb_observations
NewerThanStart(row) == \A t \in StartRows : PollOf(row) > StoredPoll(t)

\* the record of the key holds the overwritten fields of snapshot row
HoldsValuesOf(u, row) ==
    /\ parse_dt(u.realtime_time) = parse_dt(row.realtime_time)
    /\ u.delay_sec = DelayOf(row)
    /\ u.last_seen_delta_sec = DeltaOf(row)
    /\ parse_dt(u.last_poll_timestamp) = parse_dt(row.poll_timestamp)

\* C9 as stated: whatever the order of the two merges, the record ends with
\* the overwritten fields of the snapshot with the later poll, and only that
\* snapshot has added to nb_observations.
C9_OnlyLaterCounts ==
    (BothMerged /\ PollOf(log[1]) # PollOf(log[2])) =>
        \E u \in trains :
            /\ u.train_instance_id = KeyOf(log[1])
            /\ HoldsValuesOf(u, log[LaterIdx])
            /\ u.nb_observations = StartCount + 1

\* C9 amended: when both merges run and the later poll is newer than what
\* was stored, the record ends, in either order, with the overwritten fields
\* of the snapshot with the later poll; nb_observations depends on the order:
\* the snapshot with the earlier poll adds to it too when it is merged first
\* and is itself newer than what was stored.
C9_LaterPollWins ==
    (/\ BothMerged
     /\ PollOf(log[1]) # PollOf(log[2])
     /\ NewerThanStart(log[LaterIdx]))
    =>
    \E u \in trains :
        /\ u.train_instance_id = KeyOf(log[1])
        /\ HoldsValuesOf(u, log[LaterIdx])
        /\ u.nb_observations =
               StartCount + 1
               + (IF EarlierIdx = 1 /\ NewerThanStart(log[1]) THEN 1 ELSE 0)

\* C9 witness: onto a stored record, the earlier poll was merged first and the
\* later one second; both counted and the later one's values are stored.
C9_Witness ==
    /\ BothMerged
    /\ StartRows # {}
    /\ PollOf(log[1]) < PollOf(log[2])
    /\ NewerThanStart(log[1])
    /\ log[1].realtime_time # log[2].realtime_time
    /\ \E u \in trains :
           /\ HoldsValuesOf(u, log[2])
           /\ u.nb_observations = StartCount + 2

\* ------------------------------------------------- claims about SpecKey
\* the calendar date of a valid snapshot's scheduled_time
DateOf(row) == DateIso[parse_dt(row.scheduled_time)[1]]
ValidCalls == {i \in 1..Len(log) : Valid(log[i])}
\* the records of journey j on service date d
RecordsOf(j, d) == {u \in trains : u.vehicle_journey_id = j /\ u.service_date = d}

\* C11: every valid snapshot given so far has exactly one record for its
\* journey id and scheduled date (so the same pair shares a record and another
\* date of the journey has its own), no two records share a train_instance_id,
\* and different (journey id, date) pairs give different train_instance_id strings.
C11_KeyIdentity ==
    /\ \A i \in ValidCalls :
           Cardinality(RecordsOf(log[i].vehicle_journey_id, DateOf(log[i]))) = 1
    /\ \A t, u \in trains : t.train_instance_id = u.train_instance_id => t = u
    /\ \A i, j \in ValidCalls :
           (log[i].vehicle_journey_id # log[j].vehicle_journey_id
               \/ DateOf(log[i]) # DateOf(log[j]))
           => Excluded(log[i]).train_instance_id # Excluded(log[j]).train_instance_id

\* C11 witness: journey J1 on two dates has two records, and a second
\* snapshot of one of them, with another time of the same date, was merged into it.
C11_Witness ==
    /\ Len(log) = 3
    /\ \A i \in 1..3 : Valid(log[i]) /\ log[i].vehicle_journey_id = "J1"
    /\ DateOf(log[1]) # DateOf(log[2])
    /\ DateOf(log[3]) = DateOf(log[1])
    /\ log[3].scheduled_time # log[1].scheduled_time
    /\ Cardinality(trains) = 2
    /\ \E u \in RecordsOf("J1", DateOf(log[1])) : u.nb_observations = 2

\* C12 as stated: a snapshot without vehicle_journey_id (None, or the
\* empty cell of the CSV file) or with an unreadable scheduled_time creates and
\* changes no record.
C12_AbsentJourneyRejected ==
    (/\ Acted
     /\ \/ Last.vehicle_journey_id \in {None, ""}
        \/ parse_dt(Last.scheduled_time) = NoDt)
    => trains = before

\* ---------------------------------------------- more claims about Spec
\* x half-seconds in whole seconds, the fraction dropped
WholeSeconds(x) ==
    CHOOSE n \in {x \div 2, (x \div 2) + 1} :
        IF x >= 0 THEN 2 * n <= x /\ x < 2 * n + 2
                  ELSE 2 * n - 2 < x /\ x <= 2 * n
\* stored realtime_time minus stored last_poll_timestamp of record t
StoredDelta(t) ==
    <<WholeSeconds(Halves(parse_dt(t.realtime_time)) - StoredPoll(t))>>

\* C19: in every reachable table, every record has last_seen_delta_sec
\* NULL exactly when its realtime_time is NULL, and otherwise equal to the whole
\* seconds from its last_poll_timestamp to its realtime_time.
C19_DeltaConsistent ==
    \A t \in trains :
        IF t.realtime_time = None
        THEN t.last_seen_delta_sec = NullInt
        ELSE t.last_seen_delta_sec = StoredDelta(t)

\* C19 witness: a record that had a realtime_time and a delta was updated by a
\* newer snapshot without realtime_time and now has neither.
C19_Witness ==
    \E t \in before :
        /\ NewerFor(t)
        /\ t.realtime_time # None /\ t.last_seen_delta_sec # NullInt
        /\ \E u \in trains :
               /\ u.train_instance_id = t.train_instance_id
               /\ u.realtime_time = None
               /\ u.last_seen_delta_sec = NullInt

\* C20: the observation count of every record is the number of valid
\* snapshots of its key whose poll is strictly later than that of every earlier
\* valid snapshot of the key (the first included); it is at least 1 and at most
\* the number of valid snapshots of the key.
C20_CountCharacterised ==
    \A u \in trains :
        /\ u.nb_observations =
               Cardinality({i \in CallsFor(u.train_instance_id) : Accepted(i)})
        /\ u.nb_observations >= 1
        /\ u.nb_observations <= Cardinality(CallsFor(u.train_instance_id))

\* C20 witness: three valid snapshots of one key, the second with the latest
\* poll, give a count of 2: the same snapshots in rising order would give 3.
C20_Witness ==
    /\ Len(log) = 3
    /\ \A i \in 1..3 : Valid(log[i]) /\ KeyOf(log[i]) = KeyOf(log[1])
    /\ PollOf(log[1]) < PollOf(log[3]) /\ PollOf(log[3]) < PollOf(log[2])
    /\ \E u \in trains : u.train_instance_id = KeyOf(log[1]) /\ u.nb_observations = 2

\* ---------------------------------------------- claims about SpecFetch
Requests == Len(fetch.statuses)
\* the outcomes after which the loop goes on: 429, 5xx, a RequestException
Transient(status) == status = 0 \/ status = 429 \/ status \in 500..599
Exhausted == Requests = MAX_RETRIES /\ \A i \in 1..Requests : Transient(fetch.statuses[i])

\* what holds of a call of fetch_departures at every moment
BoundedRetry ==
    /\ Requests <= MAX_RETRIES
    \* every request but the latest ended in 429, 5xx or a network error
    /\ \A i \in 1..(Requests - 1) : Transient(fetch.statuses[i])
    \* one sleep after each such outcome and no other; each at most 30 s and
    \* none shorter than the one before
    /\ Len(fetch.waits) = Cardinality({i \in 1..Requests : Transient(fetch.statuses[i])})
    /\ \A i \in 1..Len(fetch.waits) :
           /\ fetch.waits[i] <= Tenths(30)
           /\ i > 1 => fetch.waits[i - 1] <= fetch.waits[i]
    \* a 200 ends the call at once; so does any other status
    /\ (Requests > 0 /\ ~Transient(fetch.statuses[Requests])) => fetch.pc = "returned"
    /\ fetch.pc = "returned" =>
           \/ fetch.statuses[Requests] = 200 /\ fetch.errors = 0
           \/ /\ fetch.statuses[Requests] # 200
              /\ ~Transient(fetch.statuses[Requests]) \/ Exhausted
              /\ fetch.result = NoDepartures
              /\ fetch.errors = 1
    /\ fetch.pc = "request" => fetch.errors = 0 /\ fetch.result = NoDepartures

\* C16: a call of fetch_departures always returns, and at every moment it
\* has made at most MAX_RETRIES = 5 requests, has gone on only after 429, 5xx or
\* a network error, each time after a sleep of at most 30 s and not shorter
\* than the one before, has returned at the first 200, and has returned the
\* empty list with one error logged after another status or five failures.
C16_BoundedFetchRetry == []BoundedRetry /\ <>(fetch.pc = "returned")

\* C16 witness: five requests failed, with 429, 5xx and a network error among
\* them; the fifth sleep was the capped 30 s and the call gave up with the
\* empty list.
C16_Witness ==
    /\ fetch.pc = "returned"
    /\ Exhausted
    /\ {0, 429, 500} \subseteq {fetch.statuses[i] : i \in 1..Requests}
    /\ Len(fetch.waits) = MAX_RETRIES
    /\ fetch.waits[1] = Tenths(2) + 9
    /\ fetch.waits[MAX_RETRIES] = Tenths(MAX_BACKOFF_SECONDS)
    /\ fetch.result = NoDepartures /\ fetch.errors = 1

\* ------------------------------- claims about SpecBatch and SpecCrash
LastEvent == events[Len(events)]
Steps == 1..Len(events)
\* the entries of events that are a turn of the loop over the rows
RowSteps == {i \in Steps : events[i].row # <<>>}
\* a row upsert_train cannot merge: the early return, or an exception of its own
Malformed(row) == Rejected(row) \/ Raises(row)
\* "Skipping row: ..." was logged for the row
Warned(e) == e.kind \in {"raised", "store_error", "commit_raised"}

\* the store has raised no error so far, on a statement or on a commit
NoStoreError ==
    \A i \in Steps : events[i].kind \notin {"store_error", "commit_raised", "commit_error"}

\* C13 as stated, where the store raises no error: every malformed row of a
\* batch gets a warning, leaves the table as it was, and the loop over the
\* rows goes on after it.
C13_MalformedWarned ==
    NoStoreError =>
        \A i \in RowSteps :
            Malformed(events[i].row[1]) =>
                /\ Warned(events[i])
                /\ i = Len(events) => (trains = before /\ run.pc = "rows")

\* C14 as stated: when the store raises an error in a run, on a row's
\* statement or on a commit, the run does nothing after it (no later row is
\* merged, the file is not renamed) and ends with the error raised to the caller.
C14_StoreErrorFatal ==
    \A i \in Steps :
        events[i].kind \in {"store_error", "commit_raised", "commit_error"} =>
            /\ \A j \in Steps : j > i => events[j].run # events[i].run
            /\ events[i].run = run.n => (run.pc = "idle" /\ run.raised)

\* C15 (SpecCrash): after a crash of a run, at any point of it, the database
\* file holds the table the run started with merged with a prefix of the
\* rows the run has processed so far (those counted in `processed`), each of
\* them merged whole; nothing of what was not committed is left.
C15_CrashLeavesPrefix ==
    (events # <<>> /\ LastEvent.kind = "crash") =>
        /\ trains = durable
        /\ \E n \in 0..Len(log) : durable = Fold(start, SubSeq(log, 1, n))

\* a run crashed between a merge and the next commit: the file holds some of
\* the rows processed, not all of them
C15_Witness ==
    /\ events # <<>> /\ LastEvent.kind = "crash"
    /\ durable # start
    /\ durable # Fold(start, log)
    /\ \E n \in 1..(Len(log) - 1) : durable = Fold(start, SubSeq(log, 1, n))

\* the raw files of the directory that are still to be merged
Unparsed == {n \in glob(DOMAIN dir) : ~endswith(n, "_parsed.csv")}

\* In every run the files are opened in rising name order and none of them
\* is named *_parsed.csv; between two files opened in a run the first is
\* renamed; a file is renamed right after a commit that follows one turn of
\* the row loop for each of the rows it has at the rename, in order and with
\* no other file in between; and at the rename everything merged is
\* committed.
Sequenced ==
    /\ \A i \in Steps :
           events[i].kind = "open" =>
               /\ ~endswith(events[i].file, "_parsed.csv")
               /\ \A j \in Steps :
                      (j > i /\ events[j].kind = "open" /\ events[j].run = events[i].run)
                      => /\ StrLess(events[i].file, events[j].file)
                         /\ \E k \in (i + 1)..(j - 1) :
                                /\ events[k].kind = "rename"
                                /\ events[k].file = events[i].file
    /\ \A i \in RowSteps : ~endswith(events[i].file, "_parsed.csv")
    /\ \A k \in Steps :
           events[k].kind = "rename" =>
               LET f == events[k].file
                   rows == events[k].content
                   o == k - 2 - Len(rows)
               IN  /\ o >= 1
                   /\ events[o].kind = "open" /\ events[o].file = f
                   /\ \A m \in 1..Len(rows) :
                          /\ events[o + m].row = <<rows[m]>>
                          /\ events[o + m].file = f /\ events[o + m].idx = m
                   /\ events[k - 1].kind = "commit" /\ events[k - 1].file = f
                   /\ \A m \in o..k : events[m].run = events[k].run
    /\ run.pc = "rename" => durable = trains

\* C18 as stated, where the store raises no error: the files of a run are
\* taken in sorted name order, one at a time, and a file is renamed only
\* after each of its rows was attempted and the merges were committed.
C18_BatchSequencing == NoStoreError => Sequenced

\* --------------------------------------------- claims about SpecEnrich
\* C17: every step of the enrichment (calendar and weather, from the first
\* statement to the last commit, failed or not) and every export leaves the
\* trains table as it is, in the file and as the run's connection sees it,
\* whatever was done before; only upsert_train and its commit change it.
C17_SingleWriter ==
    [][(enrich' # enrich \/ steps' # steps) =>
           (trains' = trains /\ durable' = durable)]_vars

\* C17 witness: after committed merges of two service dates an enrichment
\* has filled calendar and weather from them and an export has written the
\* joined rows.
C17_Witness ==
    /\ steps = <<"calendar", "weather", "export">>
    /\ Cardinality(durable) = 2
    /\ calendar # {} /\ weather # {}
    /\ exported # {}

\* ------------------------------------------------- replay of a sequence
\* the table after the first n rows of the log were merged into an empty
\* table and then the whole log was merged from its first row again
Replayed(n) == Fold(Fold({}, SubSeq(log, 1, n)), log)

\* C21: for the sequence of rows merged so far and each of its prefixes,
\* merging the prefix into an empty table and then the whole sequence again
\* gives the table that merging the sequence once gives, which is the table
\* the run holds, nb_observations included.
C21_ReplayConverges ==
    /\ trains = Fold({}, log)
    /\ \A n \in 0..Len(log) : Replayed(n) = trains

\* C21 witness: three valid snapshots of one key with rising polls were merged,
\* each counted; replayed after the second of them, the first two are stale
\* and the third is counted once, a count of 3 again.
C21_Witness ==
    /\ Len(log) = 3
    /\ \A i \in 1..3 : Valid(log[i]) /\ KeyOf(log[i]) = KeyOf(log[1])
    /\ PollOf(log[1]) < PollOf(log[2]) /\ PollOf(log[2]) < PollOf(log[3])
    /\ \E u \in trains : u.nb_observations = 3
    /\ \E u \in Fold({}, SubSeq(log, 1, 2)) : u.nb_observations = 2
    /\ Replayed(2) = trains

\* --------------------------------------------------- calendar coverage
\* every trains row populate_calendar has read has a calendar row of its
\* service_date
Covered == \A t \in enrich.seen : \E c \in calendar : c.date = t.service_date

\* C22 as stated: when populate_calendar has run (its commit is done), every
\* trains row it found has a calendar row whose date is the row's service_date.
C22_CalendarCovers ==
    [][(steps' # steps /\ steps'[Len(steps')] = "calendar") => Covered']_vars

====
